---- MODULE Spec2Model ----
(***************************************************************************)
(* Model of the ROI calculator (src/app.py): the calculation engine        *)
(* calculate_results, the scenario table kept in SQLite, the Streamlit     *)
(* session state the widgets read and write, the load_scenario callback,   *)
(* the save button and the report built by generate_pdf.                   *)
(*                                                                         *)
(* Numbers are exact rationals <<numerator, denominator>>; the binary      *)
(* rounding of Python floats is not modelled.                              *)
(***************************************************************************)
EXTENDS Integers, Sequences, FiniteSets, TLC

VARIABLES
  store,          \* the scenarios table of scenarios.db: rowid -> row
  created,        \* history: the rowids in the order the rows were inserted
  session_state,  \* st.session_state: key -> Python value
  scenarios,      \* the (id, scenario_name) pairs the last run selected
  results,        \* the dictionary the last call of calculate_results returned
  outcome,        \* how the last run or call ended: "none" or the exception
  message,        \* the st.success / st.error box of the last run
  email,          \* the value of the e-mail text input
  pdf,            \* the cells of the last report generate_pdf built
  edits           \* number of widget edits made so far

vars ==
  <<store, created, session_state, scenarios, results, outcome, message, email,
    pdf, edits>>

(***************************************************************************)
(* Bounds of the model.                                                    *)
(***************************************************************************)
MaxRows == 2

MaxEdits == 2

(***************************************************************************)
(* Exact rational arithmetic.                                              *)
(***************************************************************************)
Abs(n) == IF n < 0 THEN -n ELSE n

RECURSIVE Gcd(_, _)
Gcd(a, b) == IF b = 0 THEN a ELSE Gcd(b, a % b)

Norm(q) ==
  LET s == IF q[2] < 0 THEN -1 ELSE 1
      g == Gcd(Abs(q[1]), Abs(q[2]))
  IN  <<(s * q[1]) \div g, (s * q[2]) \div g>>

RAdd(a, b) == Norm(<<a[1] * b[2] + b[1] * a[2], a[2] * b[2]>>)

RSub(a, b) == Norm(<<a[1] * b[2] - b[1] * a[2], a[2] * b[2]>>)

RMul(a, b) ==
  LET x == Norm(<<a[1], b[2]>>)
      y == Norm(<<b[1], a[2]>>)
  IN  Norm(<<x[1] * y[1], x[2] * y[2]>>)

RDiv(a, b) == RMul(a, <<b[2], b[1]>>)

RPos(a) == a[1] > 0

Zero == <<0, 1>>

(***************************************************************************)
(* Python values: int, float, str and None.                                *)
(***************************************************************************)
PyInt(n) == [t |-> "int", q |-> <<n, 1>>, s |-> ""]

PyFloat(n, d) == [t |-> "float", q |-> Norm(<<n, d>>), s |-> ""]

PyStr(x) == [t |-> "str", q |-> Zero, s |-> x]

PyNone == [t |-> "None", q |-> Zero, s |-> ""]

IsNum(v) == v.t \in {"int", "float"}

\* Python's == on the values above: numbers compare by value across int and
\* float, strings by content, and a number never equals a string.
PyEq(a, b) ==
  IF IsNum(a) /\ IsNum(b) THEN a.q = b.q
  ELSE a.t = b.t /\ a.s = b.s

\* Python truthiness of a value.
Truthy(v) ==
  IF IsNum(v) THEN v.q # Zero
  ELSE IF v.t = "str" THEN v.s # ""
  ELSE FALSE

(***************************************************************************)
(* Business constants.                                                     *)
(***************************************************************************)
AUTOMATED_COST_PER_INVOICE == <<20, 100>>

ERROR_RATE_AUTO == <<1, 1000>>

MIN_ROI_BOOST_FACTOR == <<11, 10>>

TIME_SAVED_PER_INVOICE_MINUTES == <<7073, 1000>>

MANUAL_ERROR_RATE_PERCENT == <<4, 10>>

(***************************************************************************)
(* calculate_results.  A result number is finite (a rational) or +inf.     *)
(***************************************************************************)
Fin(q) == [inf |-> FALSE, q |-> q]

Inf == [inf |-> TRUE, q |-> Zero]

Has(inputs, k) == k \in DOMAIN inputs

labor_savings(inputs) ==
  RMul(RMul(inputs["monthly_invoice_volume"].q,
            RDiv(TIME_SAVED_PER_INVOICE_MINUTES, <<60, 1>>)),
       inputs["hourly_wage"].q)

error_savings(inputs) ==
  RMul(RMul(RSub(RDiv(MANUAL_ERROR_RATE_PERCENT, <<100, 1>>), ERROR_RATE_AUTO),
            inputs["monthly_invoice_volume"].q),
       inputs["error_cost"].q)

auto_cost(inputs) ==
  RMul(inputs["monthly_invoice_volume"].q, AUTOMATED_COST_PER_INVOICE)

\* Variant: the boost factor is not applied.
monthly_savingsUnboosted(inputs) ==
  RSub(RAdd(labor_savings(inputs), error_savings(inputs)), auto_cost(inputs))

monthly_savings(inputs) ==
  RMul(RSub(RAdd(labor_savings(inputs), error_savings(inputs)), auto_cost(inputs)),
       MIN_ROI_BOOST_FACTOR)

cumulative_savings(inputs) ==
  RMul(monthly_savings(inputs), inputs["time_horizon_months"].q)

net_savings(inputs) ==
  RSub(cumulative_savings(inputs), inputs["one_time_implementation_cost"].q)

payback_months(inputs) ==
  IF RPos(monthly_savings(inputs))
  THEN Fin(RDiv(inputs["one_time_implementation_cost"].q, monthly_savings(inputs)))
  ELSE Inf

\* Variant: a zero implementation cost gives 0 instead of +inf.
roi_percentageZeroCost(inputs) ==
  IF RPos(inputs["one_time_implementation_cost"].q)
  THEN Fin(RMul(RDiv(net_savings(inputs), inputs["one_time_implementation_cost"].q),
                <<100, 1>>))
  ELSE Fin(Zero)

roi_percentage(inputs) ==
  IF RPos(inputs["one_time_implementation_cost"].q)
  THEN Fin(RMul(RDiv(net_savings(inputs), inputs["one_time_implementation_cost"].q),
                <<100, 1>>))
  ELSE Inf

\* The dictionary of the except branch.
FallbackResult ==
  [monthly_savings |-> Fin(Zero), cumulative_savings |-> Fin(Zero),
   payback_months |-> Inf, roi_percentage |-> Fin(Zero)]

\* No dictionary: the call ended with an exception.
NoResult == [monthly_savings |-> Inf, cumulative_savings |-> Inf,
             payback_months |-> Inf, roi_percentage |-> Inf]

Returned(r) == [exc |-> "none", value |-> r]

Raised(e) == [exc |-> e, value |-> NoResult]

\* The place where the evaluation of the try block first fails, in Python's
\* left-to-right order: a subscript of an absent key raises KeyError, an
\* arithmetic operation of a float with a str or None raises TypeError.
\* Every product and difference of the block has a float operand.
FirstFailure(inputs) ==
  LET order == <<"monthly_invoice_volume", "hourly_wage", "error_cost",
                 "time_horizon_months", "one_time_implementation_cost">>
      Bad(i) == ~Has(inputs, order[i]) \/ ~IsNum(inputs[order[i]])
      bad == {i \in 1..Len(order) : Bad(i)}
  IN  IF bad = {} THEN "none"
      ELSE LET i == CHOOSE j \in bad : \A k \in bad : j <= k
           IN  IF ~Has(inputs, order[i]) THEN "KeyError" ELSE "TypeError"

calculate_results(inputs) ==
  CASE FirstFailure(inputs) = "KeyError" -> Raised("KeyError")
    [] FirstFailure(inputs) = "TypeError" -> Returned(FallbackResult)
    [] OTHER ->
         Returned([monthly_savings |-> Fin(monthly_savings(inputs)),
                   cumulative_savings |-> Fin(cumulative_savings(inputs)),
                   payback_months |-> payback_months(inputs),
                   roi_percentage |-> roi_percentage(inputs)])

(***************************************************************************)
(* The scenarios table.  A row is the tuple of its eight column values in  *)
(* schema order; the table maps each rowid to its row.                     *)
(***************************************************************************)
Columns ==
  <<"id", "scenario_name", "monthly_invoice_volume", "num_ap_staff", "hourly_wage",
    "error_cost", "time_horizon_months", "one_time_implementation_cost">>

\* Declared type of each column of the CREATE TABLE statement.
ColumnType ==
  <<"INTEGER", "TEXT", "INTEGER", "INTEGER", "REAL", "REAL", "INTEGER", "REAL">>

\* The empty table CREATE TABLE IF NOT EXISTS leaves on a fresh database.
init_db == << >>

IsIntegral(q) == q[2] = 1

\* Variant: a REAL column keeps only the integer part of a number.
AffinityTruncating(type, v) ==
  CASE type = "REAL" /\ v.t \in {"int", "float"} ->
         [v EXCEPT !.t = "float", !.q = <<v.q[1] \div v.q[2], 1>>]
    [] type = "INTEGER" /\ v.t = "float" /\ IsIntegral(v.q) -> [v EXCEPT !.t = "int"]
    [] OTHER -> v

\* What SQLite keeps of a bound Python value in a column of the given
\* declared type: a REAL column turns an integer into a float, an INTEGER
\* column turns a float without fractional part into an integer, and a
\* value is otherwise kept as it is (the names and numbers of this model
\* are never numeric-looking text, the one case where text is converted).
Affinity(type, v) ==
  CASE type = "REAL" /\ v.t = "int" -> [v EXCEPT !.t = "float"]
    [] type = "INTEGER" /\ v.t = "float" /\ IsIntegral(v.q) -> [v EXCEPT !.t = "int"]
    [] OTHER -> v

SetMax(S) == CHOOSE x \in S : \A y \in S : y <= x

\* Variant: every row is written under the same rowid.
NextRowidFirst(st) == 1

\* The rowid SQLite gives to a row inserted without an id into a table with
\* an INTEGER PRIMARY KEY: one more than the largest rowid in the table.
NextRowid(st) == IF DOMAIN st = {} THEN 1 ELSE SetMax(DOMAIN st) + 1

\* INSERT INTO scenarios (scenario_name, ..., one_time_implementation_cost)
\* VALUES (?, ?, ?, ?, ?, ?, ?): the seven bound values go to columns 2..8 in
\* the order of the column list.
InsertScenario(st, values) ==
  LET id == NextRowid(st)
      row == [c \in 1..Len(Columns) |->
                IF c = 1 THEN PyInt(id) ELSE Affinity(ColumnType[c], values[c - 1])]
  IN  [i \in DOMAIN st \cup {id} |-> IF i = id THEN row ELSE st[i]]

\* Variant: the scan returns the rows from the largest rowid down.
RECURSIVE Descending(_)
Descending(S) ==
  IF S = {} THEN << >>
  ELSE LET m == CHOOSE x \in S : \A y \in S : y <= x
       IN  <<m>> \o Descending(S \ {m})

\* The ids of a set in ascending order.
RECURSIVE Ascending(_)
Ascending(S) ==
  IF S = {} THEN << >>
  ELSE LET m == CHOOSE x \in S : \A y \in S : x <= y
       IN  <<m>> \o Ascending(S \ {m})

\* SELECT id, scenario_name FROM scenarios: a scan of the table in rowid
\* order.
SelectIdName(st) ==
  LET ids == Ascending(DOMAIN st)
  IN  [k \in 1..Len(ids) |-> <<st[ids[k]][1], st[ids[k]][2]>>]

\* scenario_options = {s[0]: s[1] for s in scenarios}; the keys of the
\* dictionary, in insertion order, are the options of the select box.
RECURSIVE DictKeys(_)
DictKeys(pairs) ==
  IF pairs = << >> THEN << >>
  ELSE LET rest == DictKeys(SubSeq(pairs, 1, Len(pairs) - 1))
           k == pairs[Len(pairs)][1]
       IN  IF \E i \in 1..Len(rest) : rest[i] = k THEN rest ELSE Append(rest, k)

scenario_options(pairs) == DictKeys(pairs)

\* SELECT * FROM scenarios WHERE id = ? followed by fetchone(): the row, or
\* None when no row has the id.
FetchOne(st, id) ==
  IF id.t = "int" /\ IsIntegral(id.q) /\ id.q[1] \in DOMAIN st
  THEN [found |-> TRUE, row |-> st[id.q[1]]]
  ELSE [found |-> FALSE, row |-> << >>]

(***************************************************************************)
(* Session state.                                                          *)
(***************************************************************************)
InputKeys ==
  <<"scenario_name", "monthly_invoice_volume", "num_ap_staff", "hourly_wage",
    "error_cost", "time_horizon_months", "one_time_implementation_cost">>

\* The values the widgets give their keys on the first run.
WidgetDefaults ==
  [selected_scenario_id |-> PyNone,
   scenario_name |-> PyStr(""),
   monthly_invoice_volume |-> PyInt(2000),
   num_ap_staff |-> PyInt(3),
   hourly_wage |-> PyFloat(30, 1),
   error_cost |-> PyFloat(100, 1),
   time_horizon_months |-> PyInt(36),
   one_time_implementation_cost |-> PyFloat(50000, 1)]

\* Assignment st.session_state[k] = v.
SetKey(ss, k, v) == [x \in DOMAIN ss \cup {k} |-> IF x = k THEN v ELSE ss[x]]

\* Variant: only the first pair of the zip is assigned.
ZipAssignFirst(ss, cols, data) ==
  IF cols = << >> \/ data = << >> THEN ss
  ELSE SetKey(ss, Head(cols), Head(data))

\* for col, val in zip(cols, data): st.session_state[col] = val
RECURSIVE ZipAssign(_, _, _)
ZipAssign(ss, cols, data) ==
  IF cols = << >> \/ data = << >> THEN ss
  ELSE ZipAssign(SetKey(ss, Head(cols), Head(data)), Tail(cols), Tail(data))

\* load_scenario: nothing happens for a falsy selection; zip() over the None
\* that fetchone() gives for an unknown id raises TypeError before any key
\* is assigned.
load_scenario(ss, st) ==
  LET scenario_id == IF Has(ss, "selected_scenario_id")
                     THEN ss["selected_scenario_id"] ELSE PyNone
      data == FetchOne(st, scenario_id)
  IN  IF ~Truthy(scenario_id) THEN [exc |-> "none", ss |-> ss]
      ELSE IF ~data.found THEN [exc |-> "TypeError", ss |-> ss]
      ELSE [exc |-> "none", ss |-> ZipAssign(ss, Columns, data.row)]

\* inputs = {key: ... if isinstance(st.session_state[key], (int, float, str))}
Inputs(ss) ==
  LET keep == {k \in DOMAIN ss : ss[k].t \in {"int", "float", "str"}}
  IN  [k \in keep |-> ss[k]]

(***************************************************************************)
(* generate_pdf: the texts of the report's cells.  A formatted number is   *)
(* kept as its count of units of the last printed decimal.                 *)
(***************************************************************************)
\* The integer nearest to q, ties to even, as the 'f' format rounds.
RoundHalfEven(q) ==
  LET fl == q[1] \div q[2]
      rem == q[1] - fl * q[2]
  IN  IF 2 * rem < q[2] THEN fl
      ELSE IF 2 * rem > q[2] THEN fl + 1
      ELSE IF fl % 2 = 0 THEN fl ELSE fl + 1

\* f"{x:,.2f}" and f"{x:.1f}": x rounded to the given number of decimals.
Format2f(x) == [na |-> FALSE, units |-> RoundHalfEven(RMul(x.q, <<100, 1>>))]

Format1f(x) == [na |-> FALSE, units |-> RoundHalfEven(RMul(x.q, <<10, 1>>))]

NotAvailable == [na |-> TRUE, units |-> 0]

generate_pdf(inputs, res) ==
  [title |-> "ROI Calculator Report",
   scenario |-> IF Has(inputs, "scenario_name")
                THEN inputs["scenario_name"].s ELSE "Unsaved",
   monthly_savings |-> Format2f(res.monthly_savings),
   payback |-> IF ~res.payback_months.inf
               THEN Format1f(res.payback_months) ELSE NotAvailable,
   horizon |-> inputs["time_horizon_months"].q[1],
   roi |-> IF ~res.roi_percentage.inf
           THEN Format1f(res.roi_percentage) ELSE NotAvailable,
   cumulative_savings |-> Format2f(res.cumulative_savings)]

\* No report: the download button is disabled.
NoPdf ==
  [title |-> "", scenario |-> "", monthly_savings |-> NotAvailable,
   payback |-> NotAvailable, horizon |-> 0, roi |-> NotAvailable,
   cumulative_savings |-> NotAvailable]

(***************************************************************************)
(* The values a user can give each widget (within the widget's minimum).   *)
(***************************************************************************)
WidgetValues(k) ==
  CASE k = "scenario_name" -> {PyStr(""), PyStr("Q4 Pilot"), PyStr("FY25")}
    [] k = "monthly_invoice_volume" -> {PyInt(0), PyInt(2000)}
    [] k = "num_ap_staff" -> {PyInt(3), PyInt(5)}
    [] k = "hourly_wage" -> {PyFloat(0, 1), PyFloat(25, 2), PyFloat(30, 1)}
    [] k = "error_cost" -> {PyFloat(0, 1), PyFloat(100, 1)}
    [] k = "time_horizon_months" -> {PyInt(12), PyInt(36)}
    [] k = "one_time_implementation_cost" -> {PyFloat(0, 1), PyFloat(50000, 1)}

EmailValues == {"", "name@company.com"}

(***************************************************************************)
(* One run of the script body (lines 106-195) over session state ss, with  *)
(* the save button pressed or not and em in the e-mail input.              *)
(***************************************************************************)
\* Variant: the name is not checked before the INSERT.
ShouldInsertUnchecked(save, scenario_name) == save

\* if st.button("Save Scenario"): if scenario_name: the INSERT is executed.
ShouldInsert(save, scenario_name) == save /\ Truthy(scenario_name)

ScriptRun(ss, em, save) ==
  LET values == [i \in 1..Len(InputKeys) |-> ss[InputKeys[i]]]
      insert == ShouldInsert(save, ss["scenario_name"])
      inputs == Inputs(ss)
      r == calculate_results(inputs)
  IN  /\ session_state' = ss
      /\ scenarios' = SelectIdName(store)
      /\ store' = IF insert THEN InsertScenario(store, values) ELSE store
      /\ created' = IF insert THEN Append(created, NextRowid(store)) ELSE created
      /\ message' = IF ~save THEN "none"
                    ELSE IF insert THEN "saved" ELSE "name_required"
      /\ results' = r.value
      /\ outcome' = r.exc
      /\ email' = em
      /\ pdf' = IF em # "" /\ r.exc = "none"
                THEN generate_pdf(inputs, r.value) ELSE NoPdf

\* The state after the first run of the script on a fresh database.
Init ==
  /\ store = init_db
  /\ created = << >>
  /\ session_state = WidgetDefaults
  /\ scenarios = << >>
  /\ results = calculate_results(Inputs(WidgetDefaults)).value
  /\ outcome = "none"
  /\ message = "none"
  /\ email = ""
  /\ pdf = NoPdf
  /\ edits = 0

\* The user changes one input widget; the script reruns.
EditField ==
  \E i \in 1..Len(InputKeys) : \E v \in WidgetValues(InputKeys[i]) :
    /\ edits < MaxEdits
    /\ v # session_state[InputKeys[i]]
    /\ edits' = edits + 1
    /\ ScriptRun(SetKey(session_state, InputKeys[i], v), email, FALSE)

\* The user changes the e-mail input; the script reruns.
EditEmail ==
  \E e \in EmailValues :
    /\ e # email
    /\ ScriptRun(session_state, e, FALSE)
    /\ UNCHANGED edits

\* The options of the select box as the last run drew them.
SelectOptions ==
  {PyNone} \cup {scenario_options(scenarios)[k] :
                    k \in 1..Len(scenario_options(scenarios))}

\* The user picks an option of "Load Saved Scenario": the on_change callback
\* load_scenario runs, then the script.  An exception in the callback ends
\* the run before the script body.
SelectScenario ==
  \E opt \in SelectOptions :
    /\ opt # session_state["selected_scenario_id"]
    /\ LET r == load_scenario(SetKey(session_state, "selected_scenario_id", opt), store)
       IN  IF r.exc = "none"
           THEN ScriptRun(r.ss, email, FALSE)
           ELSE /\ session_state' = r.ss
                /\ outcome' = r.exc
                /\ UNCHANGED <<store, created, scenarios, results, message, email, pdf>>
    /\ UNCHANGED edits

\* The user presses "Save Scenario"; the script reruns with the button set.
SaveScenario ==
  /\ Truthy(session_state["scenario_name"]) => Cardinality(DOMAIN store) < MaxRows
  /\ ScriptRun(session_state, email, TRUE)
  /\ UNCHANGED edits

Next == EditField \/ EditEmail \/ SelectScenario \/ SaveScenario

Spec == Init /\ [][Next]_vars

(***************************************************************************)
(* calculate_results as a function of any mapping: the initial states are  *)
(* mappings in which each field is absent, a string, or a number, and the  *)
(* one step calls the function.                                            *)
(***************************************************************************)
Absent == [t |-> "absent", q |-> Zero, s |-> ""]

CalcChoices(k) ==
  CASE k = "scenario_name" -> {Absent, PyStr("Q4 Pilot")}
    [] k = "monthly_invoice_volume" -> {Absent, PyStr("many"), PyInt(0), PyInt(2000)}
    [] k = "num_ap_staff" -> {Absent, PyInt(3), PyInt(5)}
    [] k = "hourly_wage" ->
         {Absent, PyStr("n/a"), PyFloat(0, 1), PyFloat(25, 2), PyFloat(30, 1)}
    [] k = "error_cost" -> {Absent, PyStr("n/a"), PyFloat(0, 1), PyFloat(100, 1)}
    [] k = "time_horizon_months" -> {Absent, PyStr("3y"), PyInt(12), PyInt(36)}
    [] k = "one_time_implementation_cost" ->
         {Absent, PyStr("free"), PyFloat(0, 1), PyFloat(50000, 1)}

\* The mapping that has the keys of InputKeys whose choice is not Absent.
Mapping(choice) ==
  LET present == {i \in 1..Len(InputKeys) : choice[i] # Absent}
  IN  [k \in {InputKeys[i] : i \in present} |->
         choice[CHOOSE i \in present : InputKeys[i] = k]]

InitCalc ==
  /\ \E a \in CalcChoices(InputKeys[1]), b \in CalcChoices(InputKeys[2]),
        c \in CalcChoices(InputKeys[3]), d \in CalcChoices(InputKeys[4]),
        e \in CalcChoices(InputKeys[5]), f \in CalcChoices(InputKeys[6]),
        g \in CalcChoices(InputKeys[7]) :
       session_state = Mapping(<<a, b, c, d, e, f, g>>)
  /\ store = init_db
  /\ created = << >>
  /\ scenarios = << >>
  /\ results = NoResult
  /\ outcome = "start"
  /\ message = "none"
  /\ email = ""
  /\ pdf = NoPdf
  /\ edits = 0

\* results = calculate_results(inputs)
CalcCall ==
  /\ outcome = "start"
  /\ LET r == calculate_results(session_state)
     IN  /\ results' = r.value
         /\ outcome' = r.exc
  /\ UNCHANGED <<store, created, session_state, scenarios, message, email, pdf, edits>>

NextCalc == CalcCall

SpecCalc == InitCalc /\ [][NextCalc]_vars

(***************************************************************************)
(* load_scenario as an operation on any table and any selected id: the     *)
(* initial states are tables of up to MaxRows rows with a selection that   *)
(* may name no row, and the one step calls the callback.                   *)
(***************************************************************************)
SampleRows ==
  {<<PyStr("Q4 Pilot"), PyInt(2000), PyInt(3), PyFloat(30, 1), PyFloat(100, 1),
     PyInt(36), PyFloat(50000, 1)>>,
   <<PyStr("FY25"), PyInt(0), PyInt(5), PyFloat(25, 2), PyFloat(0, 1),
     PyInt(12), PyFloat(0, 1)>>,
   <<PyStr("Q4 Pilot"), PyInt(2000), PyInt(5), PyFloat(25, 2), PyFloat(100, 1),
     PyInt(12), PyFloat(50000, 1)>>,
   <<PyStr("Night shift"), PyInt(0), PyInt(3), PyFloat(0, 1), PyFloat(100, 1),
     PyInt(36), PyFloat(0, 1)>>}

RECURSIVE Tables(_)
Tables(n) ==
  IF n = 0 THEN {init_db}
  ELSE Tables(n - 1) \cup
       {InsertScenario(t, v) : t \in {u \in Tables(n - 1) : Cardinality(DOMAIN u) = n - 1},
                               v \in SampleRows}

InitFetch ==
  /\ store \in Tables(MaxRows)
  /\ created = Ascending(DOMAIN store)
  /\ \E sel \in {PyNone} \cup {PyInt(i) : i \in 0..(MaxRows + 1)} :
       session_state = SetKey(WidgetDefaults, "selected_scenario_id", sel)
  /\ scenarios = SelectIdName(store)
  /\ results = calculate_results(Inputs(WidgetDefaults)).value
  /\ outcome = "start"
  /\ message = "none"
  /\ email = ""
  /\ pdf = NoPdf
  /\ edits = 0

\* The callback alone.
LoadCall ==
  /\ outcome = "start"
  /\ LET r == load_scenario(session_state, store)
     IN  /\ session_state' = r.ss
         /\ outcome' = r.exc
  /\ UNCHANGED <<store, created, scenarios, results, message, email, pdf, edits>>

NextFetch == LoadCall

SpecFetch == InitFetch /\ [][NextFetch]_vars

(***************************************************************************)
(* Properties.                                                             *)
(***************************************************************************)
CalcKeys ==
  {"monthly_invoice_volume", "hourly_wage", "error_cost", "time_horizon_months",
   "one_time_implementation_cost"}

\* Every field the calculation reads is present and numeric.
WellFormed(inputs) == \A k \in CalcKeys : Has(inputs, k) /\ IsNum(inputs[k])

\* The value a row holds in the column of the given name.
ColumnOf(row, name) == row[CHOOSE c \in 1..Len(Columns) : Columns[c] = name]

RLe(a, b) == a[1] * b[2] <= b[1] * a[2]

\* C1: calculate_results never raises; whenever a field it needs is missing
\* or non-numeric, the call returns exactly the fallback result.
C1_FallbackNeverRaises ==
  (outcome # "start" /\ ~WellFormed(session_state))
    => (outcome = "none" /\ results = FallbackResult)

\* C2: right after a successful save of the working input x, fetching the
\* id the save created gives a row whose seven input columns equal the
\* seven fields of x.
C2_RoundTrip ==
  message = "saved" =>
    LET f == FetchOne(store, PyInt(created[Len(created)]))
    IN  /\ f.found
        /\ \A i \in 1..Len(InputKeys) :
             PyEq(ColumnOf(f.row, InputKeys[i]), session_state[InputKeys[i]])

C2_Witness ==
  /\ message = "saved"
  /\ Len(created) = 2
  /\ session_state["hourly_wage"] = PyFloat(25, 2)
  /\ session_state["scenario_name"] = PyStr("FY25")

\* C3: every step keeps every stored row as it is; a successful save adds
\* exactly one row, under an id greater than every id assigned before; no
\* other step changes the table.
C3_AppendOnly ==
  [][/\ \A i \in DOMAIN store : i \in DOMAIN store' /\ store'[i] = store[i]
     /\ message' = "saved" =>
          \E id \in DOMAIN store' :
            /\ DOMAIN store' = DOMAIN store \cup {id}
            /\ id \notin DOMAIN store
            /\ \A k \in 1..Len(created) : created[k] < id
            /\ store'[id][1] = PyInt(id)
     /\ message' # "saved" => store' = store]_vars

C3_Witness ==
  /\ Cardinality(DOMAIN store) = 2
  /\ store[1][2] = store[2][2]
  /\ store[1][5] # store[2][5]

\* C4: the list a run selects holds every row stored when it is selected,
\* as (id, scenario_name), in the order the rows were created.
C4_ListCreationOrder ==
  [][scenarios' = [k \in 1..Len(created) |->
                     <<PyInt(created[k]), ColumnOf(store[created[k]], "scenario_name")>>]]_vars

C4_Witness ==
  /\ Len(scenarios) = 2
  /\ scenarios[1][1] = PyInt(created[1])
  /\ scenarios[2][1] = PyInt(created[2])
  /\ scenarios[1][2] # scenarios[2][2]

\* C5: loading an id that no row has ends with a NotFound result, not an
\* exception.
C5_FetchMissingIsNotFound ==
  (/\ outcome # "start"
   /\ Truthy(session_state["selected_scenario_id"])
   /\ ~FetchOne(store, session_state["selected_scenario_id"]).found)
    => outcome = "NotFound"

\* C6: pressing save with an empty scenario name is answered with the
\* error box and leaves the table, and the next id to assign, as they were.
C6_EmptyNameRejected ==
  [][(message' # "none" /\ ~Truthy(session_state'["scenario_name"]))
       => /\ message' = "name_required"
          /\ store' = store
          /\ created' = created
          /\ NextRowid(store') = NextRowid(store)]_vars

C6_Witness ==
  /\ message = "name_required"
  /\ session_state["scenario_name"] = PyStr("")
  /\ Cardinality(DOMAIN store) = 1

\* C7: on well-formed numeric input the call returns normally, never the
\* fallback when a sentinel applies; payback_months is +inf when
\* monthly_savings <= 0 and implementation cost / monthly_savings
\* otherwise; roi_percentage is +inf when the implementation cost is 0.
C7_Sentinels ==
  (outcome # "start" /\ WellFormed(session_state)) =>
    LET m == results.monthly_savings.q
        cost == session_state["one_time_implementation_cost"].q
    IN  /\ outcome = "none"
        /\ ~results.monthly_savings.inf
        /\ RLe(m, Zero) => results.payback_months = Inf
        /\ ~RLe(m, Zero) => results.payback_months = Fin(RDiv(cost, m))
        /\ cost = Zero => results.roi_percentage = Inf
        /\ (RLe(m, Zero) \/ cost = Zero) => results # FallbackResult

C7_Witness ==
  /\ outcome = "none"
  /\ WellFormed(session_state)
  /\ results.monthly_savings.q[1] < 0
  /\ session_state["one_time_implementation_cost"].q = Zero
  /\ results.roi_percentage = Inf
  /\ results.payback_months = Inf

\* The fields of the concrete scenario that the calculation reads.
IsConcreteScenario(inputs) ==
  /\ WellFormed(inputs)
  /\ inputs["monthly_invoice_volume"].q = <<2000, 1>>
  /\ inputs["hourly_wage"].q = <<30, 1>>
  /\ inputs["error_cost"].q = <<100, 1>>
  /\ inputs["time_horizon_months"].q = <<36, 1>>
  /\ inputs["one_time_implementation_cost"].q = <<50000, 1>>

\* a <= x < b
Between(x, a, b) == ~x.inf /\ RLe(a, x.q) /\ ~RLe(b, x.q)

C9_UnsavedPlaceholder ==
  pdf # NoPdf =>
    pdf.scenario = IF session_state["scenario_name"].s = ""
                   THEN "Unsaved" ELSE session_state["scenario_name"].s

\* C10: a run that loads an existing id leaves every one of the seven input
\* fields of the session equal to the row's column of the same name, leaves
\* the table as it was, and computes the results from the row's values.
C10_LoadReplaces ==
  [][(/\ session_state'["selected_scenario_id"] # session_state["selected_scenario_id"]
      /\ Truthy(session_state'["selected_scenario_id"])
      /\ FetchOne(store, session_state'["selected_scenario_id"]).found)
       => LET row == FetchOne(store, session_state'["selected_scenario_id"]).row
              rec == [k \in {InputKeys[i] : i \in 1..Len(InputKeys)} |-> ColumnOf(row, k)]
          IN  /\ \A k \in DOMAIN rec : session_state'[k] = rec[k]
              /\ store' = store
              /\ outcome' = "none"
              /\ results' = calculate_results(rec).value]_vars

C10_Witness ==
  /\ Truthy(session_state["selected_scenario_id"])
  /\ Has(session_state, "id")
  /\ session_state["id"] = session_state["selected_scenario_id"]
  /\ edits = MaxEdits
  /\ Cardinality(DOMAIN store) = 1
  /\ \A i \in 1..Len(InputKeys) :
       session_state[InputKeys[i]] = ColumnOf(store[1], InputKeys[i])

====
